---- MODULE Spec2Model ----
(***************************************************************************)
(* A model of the mutation-execution pipeline of move-spec-testing:        *)
(*   - move-mutation-test/src/mutation_test.rs: run_tests and its two      *)
(*     call shapes (baseline run, mutant run);                             *)
(*   - move-mutator/src/compiler.rs: verify_mutant / compile_package and    *)
(*     generate_ast.                                                       *)
(* The file system, the unit-test engine and the package compiler are the  *)
(* environment: they are modelled by what the calls in the source ask of   *)
(* them.  The host driver (the caller of the three entry points) is not    *)
(* part of the sources and is modelled from the specification.             *)
(***************************************************************************)
EXTENDS Integers, Sequences, FiniteSets, TLC

VARIABLES
    cfg,        \* the session's TestBuildConfig / BuildConfig (fixed by Init)
    fs,         \* the file system: directory -> None | Some(file -> content)
    pc,         \* position of every thread (0: the main thread, 1..: workers)
    call,       \* the locals of the call a worker is in
    tmp,        \* the temporary directory a call holds: None | Some(dir)
    args,       \* the parameters run_tests was called with
    eng,        \* the state of the unit-test engine invocation of a thread
    res,        \* what the last call of a thread returned
    jobs,       \* number of calls the workers have started
    refreshing, \* the threads that are refreshing the dependency cache now
    foreign,    \* history: directories a worker's calls wrote to that were not the call's own temporary directory
    snapshot,   \* history: the original package tree when the baseline returned
    ast         \* the generate_ast call: its inputs and its result

vars == <<cfg, fs, pc, call, tmp, args, eng, res, jobs, refreshing, foreign, snapshot, ast>>

----------------------------------------------------------------------------
(* Bounds *)

NumWorkers == 2
MaxJobs == 2
MaxGas == 2
MaxSources == 2
MaxDeps == 2

Workers == 1..NumWorkers
Main == 0
Procs == {Main} \cup Workers

----------------------------------------------------------------------------
(* Option<T>, Result<T, E> and strings *)

None == <<>>
Some(x) == <<x>>
IsSome(o) == Len(o) = 1
Unwrap(o) == o[1]

\* A message is the sequence of the pieces format! puts together.
Pending == [tag |-> "pending", msg |-> <<>>]
Ok == [tag |-> "Ok", msg |-> <<>>]
Err(m) == [tag |-> "Err", msg |-> m]

----------------------------------------------------------------------------
(* The file system *)

OrigDir == <<"orig">>
OutDir == <<"out">>
TmpDirs == {<<"tmp", i>> : i \in 1..NumWorkers}
Dirs == {OrigDir, OutDir} \cup TmpDirs

Manifest == "Move.toml"
FileA == "sources/a.move"
FileB == "sources/b.move"
BuildOut == "build"
TraceFile == ".trace"
StrayFile == "stray.move"
MissingFile == "missing.move"
Files == {Manifest, FileA, FileB, BuildOut, TraceFile, StrayFile}
SourceFiles == {FileA, FileB}

Absent == "(absent)"
EmptyTree == [f \in Files |-> Absent]

Exists(d) == IsSome(fs[d])
Tree(d) == Unwrap(fs[d])
FileExists(d, f) == Exists(d) /\ f \in Files /\ Tree(d)[f] # Absent

\* fs with file f of directory d set to content c
WriteFile(F, d, f, c) == [F EXCEPT ![d] = Some([Unwrap(F[d]) EXCEPT ![f] = c])]


\* the directory build output goes to: install_dir if given, else the package
ProjectRoot(config, package_path) ==
    IF IsSome(config.install_dir) THEN Unwrap(config.install_dir) ELSE package_path

\* the directories of D that are not the temporary directory thread p holds
NotOwn(p, D) == D \ (IF IsSome(tmp[p]) THEN {Unwrap(tmp[p])} ELSE {})

----------------------------------------------------------------------------
(* Source texts and what the toolchain makes of them *)

SrcA == "src_a"
SrcAFailing == "src_a_failing"   \* an original whose own test suite fails
SrcB == "src_b"
MKill == "m_kill"     \* a fault an existing test catches
MSurv == "m_surv"     \* a fault no test catches
MLoop == "m_loop"     \* while (true) {} in code a test reaches
MBad == "m_bad"       \* does not compile

\* (original file, mutated text) pairs, as the mutant generator supplies them
Mutant(d, f, t) == [dir |-> d, file |-> f, text |-> t]
TestMutants ==
    { Mutant(OrigDir, FileA, MKill), Mutant(OrigDir, FileB, MSurv),
      Mutant(OrigDir, FileA, MLoop), Mutant(OrigDir, FileA, MBad) }
VerifyMutants ==
    { Mutant(OrigDir, FileB, MSurv), Mutant(OrigDir, FileA, MBad),
      Mutant(OrigDir, MissingFile, MSurv), Mutant(OutDir, StrayFile, MSurv) }

Texts(tree) == {tree[f] : f \in SourceFiles}
Compiles(tree) == MBad \notin Texts(tree) /\ Absent \notin Texts(tree)
Behaviour(tree) ==
    IF ~Compiles(tree) THEN "nocompile"
    ELSE IF MLoop \in Texts(tree) THEN "loop"
    ELSE IF Texts(tree) \cap {MKill, SrcAFailing} # {} THEN "fail"
    ELSE "pass"

\* what a build of the package leaves in the build directory
Artifacts(tree, test_mode) ==
    IF Texts(tree) \subseteq {SrcA, SrcAFailing, SrcB}
    THEN (IF test_mode THEN "artifacts(test)" ELSE "artifacts")
    ELSE (IF test_mode THEN "artifacts(test) of a mutant" ELSE "artifacts of a mutant")

IoNotFound == <<"No such file or directory (os error 2)">>
IoNoSpace == <<"No space left on device (os error 28)">>
NoManifest == <<"Unable to find package manifest">>
CompileDiag == <<"Compilation error">>

----------------------------------------------------------------------------
(* mutation_test.rs *)

TestFailureMsg == <<"Move unit test error">>

\* run_tests_on_original_code: the call of run_tests
run_tests_on_original_code_call(c, package_path) ==
    [ cfg |-> c,
      package_path |-> package_path,
      skip_fetch_latest_git_deps |-> FALSE,
      report_statistics |-> TRUE,
      error_writer |-> "stderr" ]

\* a faulty variant: the error of run_tests is logged and dropped
run_tests_on_original_code_ret_swallowed(result) == Ok

\* run_tests_on_original_code: what it returns for run_tests' result
run_tests_on_original_code_ret(result) ==
    IF result.tag = "Err"
    THEN Err(<<"Test suite is failing for the original code! Unit test failed with error: ">>
             \o result.msg)
    ELSE Ok

\* cfg.disable_coverage()
disable_coverage(c) == [c EXCEPT !.apply_coverage = FALSE]

\* a faulty variant: mutant runs refresh the dependencies as well
run_tests_on_mutated_code_call_fetching(c, package_path) ==
    [ cfg |-> [c EXCEPT !.apply_coverage = FALSE],
      package_path |-> package_path,
      skip_fetch_latest_git_deps |-> FALSE,
      report_statistics |-> FALSE,
      error_writer |-> "sink" ]

\* a faulty variant: every mutant run tests one fixed scratch directory
\* instead of the package_path it was given
run_tests_on_mutated_code_call_shared(c, package_path) ==
    [ cfg |-> [c EXCEPT !.apply_coverage = FALSE],
      package_path |-> <<"tmp", 1>>,
      skip_fetch_latest_git_deps |-> TRUE,
      report_statistics |-> FALSE,
      error_writer |-> "sink" ]

\* run_tests_on_mutated_code: the call of run_tests (whose result it returns)
run_tests_on_mutated_code_call(c, package_path) ==
    [ cfg |-> disable_coverage(c),
      package_path |-> package_path,
      skip_fetch_latest_git_deps |-> TRUE,
      report_statistics |-> FALSE,
      error_writer |-> "sink" ]

\* run_tests: the BuildConfig it builds
run_tests_config(a) ==
    [ test_mode |-> TRUE,
      install_dir |-> a.cfg.output_dir,
      skip_fetch_latest_git_deps |-> a.skip_fetch_latest_git_deps ]

\* a faulty variant: no limit
gas_limit_unlimited(c) == None

\* run_tests: the gas limit handed to the engine
gas_limit(c) == Some(c.gas_limit)

\* a faulty variant: the engine's error is passed on as it is
map_err_bare(err) == err

\* run_tests: .map_err(|err| ...) on the engine's error
map_err(err) == <<"failed to run unit tests: ">> \o err

\* run_tests: match result { Success => Ok(()), Failure => Err(..) }
match_result(r) == IF r = "Success" THEN Ok ELSE Err(TestFailureMsg)

EnginePending == [tag |-> "pending", val |-> <<>>]
EngineOk(v) == [tag |-> "Ok", val |-> <<v>>]
EngineErr(cause) == [tag |-> "Err", val |-> cause]

\* the invocation of move_cli::base::test::run_move_unit_tests
EngineCall(a) ==
    [ package_path |-> a.package_path,
      config |-> run_tests_config(a),
      report_statistics |-> a.report_statistics,
      gas_limit |-> gas_limit(a.cfg),
      compute_coverage |-> a.cfg.apply_coverage,
      error_writer |-> a.error_writer,
      behaviour |-> "unknown",
      used |-> 0,
      result |-> EnginePending,
      trace_removal |-> "none" ]

EngineIdle ==
    [ package_path |-> OrigDir,
      config |-> [test_mode |-> TRUE, install_dir |-> None,
                  skip_fetch_latest_git_deps |-> TRUE],
      report_statistics |-> FALSE,
      gas_limit |-> None,
      compute_coverage |-> FALSE,
      error_writer |-> "sink",
      behaviour |-> "unknown",
      used |-> 0,
      result |-> EnginePending,
      trace_removal |-> "none" ]

\* faults of the engine that are none of the tested code's doing
EngineFaults == {IoNoSpace, TestFailureMsg}

\* gas a terminating test suite needs
NormalCost == 1


\* run_tests is entered by thread p with parameters a; the engine is invoked
RunTestsEnter(p, a) ==
    /\ args' = [args EXCEPT ![p] = a]
    /\ eng' = [eng EXCEPT ![p] = EngineCall(a)]
    /\ res' = [res EXCEPT ![p] = Pending]

\* The engine resolves the package's dependencies; unless told to skip it, it
\* refreshes the git dependencies in the shared dependency cache.
EngineResolve(p) ==
    /\ pc[p] = "rt_resolve"
    /\ refreshing' = IF eng[p].config.skip_fetch_latest_git_deps
                     THEN refreshing ELSE refreshing \cup {p}
    /\ pc' = [pc EXCEPT ![p] = "rt_build"]
    /\ UNCHANGED <<cfg, fs, call, tmp, args, eng, res, jobs, foreign, snapshot, ast>>

\* The engine builds the package at package_path in test mode. A package that
\* does not compile is an error of the engine, not a test failure.
EngineBuild(p) ==
    /\ pc[p] = "rt_build"
    /\ refreshing' = refreshing \ {p}
    /\ LET e == eng[p]
           path == e.package_path
           out == ProjectRoot(e.config, path)
           b == Behaviour(Tree(path))
           built == WriteFile(fs, out, BuildOut, Artifacts(Tree(path), e.config.test_mode))
       IN  IF ~Exists(path)
           THEN /\ eng' = [eng EXCEPT ![p].result = EngineErr(IoNotFound)]
                /\ pc' = [pc EXCEPT ![p] = "rt_ret"]
                /\ UNCHANGED <<fs, foreign>>
           ELSE IF b = "nocompile"
           THEN /\ eng' = [eng EXCEPT ![p].result = EngineErr(CompileDiag)]
                /\ pc' = [pc EXCEPT ![p] = "rt_ret"]
                /\ UNCHANGED <<fs, foreign>>
           ELSE /\ eng' = [eng EXCEPT ![p].behaviour = b]
                /\ fs' = IF e.compute_coverage
                         THEN WriteFile(built, path, TraceFile, "trace")
                         ELSE built
                /\ foreign' = [foreign EXCEPT ![p] =
                                 @ \cup NotOwn(p, {out} \cup
                                     (IF e.compute_coverage THEN {path} ELSE {}))]
                /\ pc' = [pc EXCEPT ![p] = "rt_exec"]
    /\ UNCHANGED <<cfg, call, tmp, args, res, jobs, snapshot, ast>>

\* The engine executes the tests, one unit of gas at a time. With a gas limit
\* a test that has used it up is stopped and fails; without one it runs on.
\* The gas meter is the engine's own and is gone when the engine returns.
EngineExec(p) ==
    /\ pc[p] = "rt_exec"
    /\ LET e == eng[p]
           finished == e.behaviour # "loop" /\ e.used >= NormalCost
           out_of_gas == IsSome(e.gas_limit) /\ e.used >= Unwrap(e.gas_limit)
       IN  \/ /\ finished
              /\ eng' = [eng EXCEPT ![p].used = 0, ![p].result =
                           EngineOk(IF e.behaviour = "pass" THEN "Success" ELSE "Failure")]
              /\ pc' = [pc EXCEPT ![p] = "rt_ret"]
           \/ /\ ~finished /\ out_of_gas
              /\ eng' = [eng EXCEPT ![p].used = 0, ![p].result = EngineOk("Failure")]
              /\ pc' = [pc EXCEPT ![p] = "rt_ret"]
           \/ /\ ~finished /\ ~out_of_gas
              /\ eng' = [eng EXCEPT ![p].used =
                           IF e.used <= MaxGas THEN e.used + 1 ELSE e.used]
              /\ pc' = pc
           \/ /\ \E cause \in EngineFaults :
                    eng' = [eng EXCEPT ![p].used = 0, ![p].result = EngineErr(cause)]
              /\ pc' = [pc EXCEPT ![p] = "rt_ret"]
    /\ UNCHANGED <<cfg, fs, call, tmp, args, res, jobs, refreshing, foreign, snapshot, ast>>

\* run_tests after the engine has returned, and the return of its caller
\* (run_tests_on_original_code on the main thread, run_tests_on_mutated_code
\* on a worker)
RunTestsReturn(p) ==
    /\ pc[p] = "rt_ret"
    /\ LET e == eng[p]
           path == args[p].package_path
           wrap(r) == IF p = Main THEN run_tests_on_original_code_ret(r) ELSE r
       IN  IF e.result.tag = "Err"
           THEN \* the ? operator returns at once
                /\ res' = [res EXCEPT ![p] = wrap(Err(map_err(e.result.val)))]
                /\ UNCHANGED <<fs, eng, foreign>>
           ELSE /\ IF args[p].cfg.apply_coverage
                   THEN \E removed \in BOOLEAN :
                          /\ fs' = IF removed /\ FileExists(path, TraceFile)
                                   THEN WriteFile(fs, path, TraceFile, Absent)
                                   ELSE fs
                          /\ eng' = [eng EXCEPT ![p].trace_removal =
                                       IF removed THEN "removed" ELSE "failed"]
                          /\ foreign' = [foreign EXCEPT ![p] = @ \cup NotOwn(p, {path})]
                   ELSE UNCHANGED <<fs, eng, foreign>>
                /\ res' = [res EXCEPT ![p] = wrap(match_result(e.result.val[1]))]
    /\ pc' = [pc EXCEPT ![p] = IF p = Main THEN "done" ELSE "mt_cleanup"]
    /\ snapshot' = IF p = Main THEN Unwrap(fs'[OrigDir]) ELSE snapshot
    /\ UNCHANGED <<cfg, call, tmp, args, jobs, refreshing, ast>>

----------------------------------------------------------------------------
(* The host driver *)

\* the session's BuildConfiguration, as handed to verify_mutant
BuildConfig(c) == [test_mode |-> TRUE, install_dir |-> c.output_dir]

\* the baseline run: once, first, on the package itself
BaselineStart ==
    /\ pc[Main] = "start"
    /\ RunTestsEnter(Main, run_tests_on_original_code_call(cfg, OrigDir))
    /\ pc' = [pc EXCEPT ![Main] = "rt_resolve"]
    /\ UNCHANGED <<cfg, fs, call, tmp, jobs, refreshing, foreign, snapshot, ast>>

\* mutant work begins only after a baseline that returned success
BaselineGate == pc[Main] = "done" /\ res[Main].tag = "Ok"

\* tempfile::tempdir() makes a directory that did not exist; its name carries
\* no meaning, so the call gets the first unused one
FreeTmpDirs == {d \in TmpDirs : ~Exists(d)}
FreshTmpDir == CHOOSE d \in FreeTmpDirs : \A e \in FreeTmpDirs : d[2] <= e[2]

CallIdle ==
    [ op |-> "none", mutant |-> Mutant(OrigDir, FileA, SrcA),
      config |-> [test_mode |-> TRUE, install_dir |-> None],
      root |-> None, relative_path |-> "", step |-> "none", pending |-> Pending ]

\* a mutant run: a private copy of the package with the mutant's file
\* replaced, then run_tests_on_mutated_code on the copy
StartMutantTest(w) ==
    /\ BaselineGate
    /\ pc[w] = "idle"
    /\ jobs < MaxJobs
    /\ FreeTmpDirs # {}
    /\ \E m \in TestMutants :
         LET d == FreshTmpDir IN
         /\ fs' = [fs EXCEPT ![d] = Some([Tree(OrigDir) EXCEPT ![m.file] = m.text])]
         /\ tmp' = [tmp EXCEPT ![w] = Some(d)]
         /\ call' = [call EXCEPT ![w] = [CallIdle EXCEPT !.op = "test", !.mutant = m]]
         /\ RunTestsEnter(w, run_tests_on_mutated_code_call(cfg, d))
    /\ pc' = [pc EXCEPT ![w] = "rt_resolve"]
    /\ jobs' = jobs + 1
    /\ UNCHANGED <<cfg, refreshing, foreign, snapshot, ast>>

\* the mutant run's copy is deleted once run_tests_on_mutated_code returned
FinishMutantTest(w) ==
    /\ pc[w] = "mt_cleanup"
    /\ fs' = [fs EXCEPT ![Unwrap(tmp[w])] = None]
    /\ tmp' = [tmp EXCEPT ![w] = None]
    /\ pc' = [pc EXCEPT ![w] = "idle"]
    /\ UNCHANGED <<cfg, call, args, eng, res, jobs, refreshing, foreign, snapshot, ast>>

\* a sandbox verification: verify_mutant(config, mutated_source, original_file)
StartVerify(w) ==
    /\ BaselineGate
    /\ pc[w] = "idle"
    /\ jobs < MaxJobs
    /\ \E m \in VerifyMutants :
         call' = [call EXCEPT ![w] =
                    [CallIdle EXCEPT !.op = "verify", !.mutant = m,
                                     !.config = BuildConfig(cfg)]]
    /\ res' = [res EXCEPT ![w] = Pending]
    /\ pc' = [pc EXCEPT ![w] = "vm_root"]
    /\ jobs' = jobs + 1
    /\ UNCHANGED <<cfg, fs, tmp, args, eng, refreshing, foreign, snapshot, ast>>


----------------------------------------------------------------------------
(* compiler.rs: verify_mutant *)

\* verify_mutant leaves its body with result r, produced by step s
VerifyLeave(w, s, r) ==
    /\ call' = [call EXCEPT ![w].step = s, ![w].pending = r]
    /\ pc' = [pc EXCEPT ![w] = "vm_ret"]

\* original_file.canonicalize()?, SourcePackageLayout::try_find_root(..)?,
\* strip_prefix(&root)?
VerifyFindRoot(w) ==
    /\ pc[w] = "vm_root"
    /\ LET m == call[w].mutant
       IN  IF ~FileExists(m.dir, m.file)
           THEN VerifyLeave(w, "canonicalize", Err(IoNotFound))
           ELSE IF ~FileExists(m.dir, Manifest)
           THEN VerifyLeave(w, "root", Err(NoManifest))
           ELSE /\ call' = [call EXCEPT ![w].root = Some(m.dir),
                                        ![w].relative_path = m.file]
                /\ pc' = [pc EXCEPT ![w] = "vm_tempdir"]
    /\ UNCHANGED <<cfg, fs, tmp, args, eng, res, jobs, refreshing, foreign, snapshot, ast>>

\* let tempdir = tempfile::tempdir()?
VerifyTempdir(w) ==
    /\ pc[w] = "vm_tempdir"
    /\ \/ /\ FreeTmpDirs # {}
          /\ fs' = [fs EXCEPT ![FreshTmpDir] = Some(EmptyTree)]
          /\ tmp' = [tmp EXCEPT ![w] = Some(FreshTmpDir)]
          /\ pc' = [pc EXCEPT ![w] = "vm_copy"]
          /\ UNCHANGED call
       \/ /\ VerifyLeave(w, "tempdir", Err(IoNoSpace))
          /\ UNCHANGED <<fs, tmp>>
    /\ UNCHANGED <<cfg, args, eng, res, jobs, refreshing, foreign, snapshot, ast>>

\* fs_extra::dir::copy(&root, &tempdir, content_only)?
VerifyCopy(w) ==
    /\ pc[w] = "vm_copy"
    /\ LET t == Unwrap(tmp[w])
           root == Unwrap(call[w].root)
       IN  \/ /\ fs' = [fs EXCEPT ![t] = Some(Tree(root))]
              /\ foreign' = [foreign EXCEPT ![w] = @ \cup NotOwn(w, {t})]
              /\ pc' = [pc EXCEPT ![w] = "vm_write"]
              /\ UNCHANGED call
           \/ /\ VerifyLeave(w, "copy", Err(IoNoSpace))
              /\ UNCHANGED <<fs, foreign>>
    /\ UNCHANGED <<cfg, tmp, args, eng, res, jobs, refreshing, snapshot, ast>>

\* std::fs::write(tempdir.path().join(relative_path), mutated_source)?
VerifyWrite(w) ==
    /\ pc[w] = "vm_write"
    /\ LET t == Unwrap(tmp[w])
       IN  \/ /\ fs' = WriteFile(fs, t, call[w].relative_path, call[w].mutant.text)
              /\ foreign' = [foreign EXCEPT ![w] = @ \cup NotOwn(w, {t})]
              /\ pc' = [pc EXCEPT ![w] = "vm_compile"]
              /\ UNCHANGED call
           \/ /\ VerifyLeave(w, "write", Err(IoNoSpace))
              /\ UNCHANGED <<fs, foreign>>
    /\ UNCHANGED <<cfg, tmp, args, eng, res, jobs, refreshing, snapshot, ast>>

\* verify_mutant: the working config, test mode off
working_config(config) == [config EXCEPT !.test_mode = FALSE]

\* compile_package(build_config, package_path): the compiler's verdict on the
\* package as it is on disk
compile_package(build_config, package_path) ==
    IF Compiles(Tree(package_path)) THEN Ok ELSE Err(CompileDiag)

\* let _ = compile_package(working_config, tempdir.path())?; Ok(())
VerifyCompile(w) ==
    /\ pc[w] = "vm_compile"
    /\ LET t == Unwrap(tmp[w])
           wc == working_config(call[w].config)
           out == ProjectRoot(wc, t)
           r == compile_package(wc, t)
       IN  \/ /\ r.tag = "Ok"
              /\ fs' = WriteFile(fs, out, BuildOut, Artifacts(Tree(t), wc.test_mode))
              /\ foreign' = [foreign EXCEPT ![w] = @ \cup NotOwn(w, {out})]
              /\ VerifyLeave(w, "compile", Ok)
           \/ /\ r.tag = "Err"
              /\ VerifyLeave(w, "compile", r)
              /\ UNCHANGED <<fs, foreign>>
           \/ \* the build itself fails on the disk
              /\ VerifyLeave(w, "compile", Err(IoNoSpace))
              /\ UNCHANGED <<fs, foreign>>
    /\ UNCHANGED <<cfg, tmp, args, eng, res, jobs, refreshing, snapshot, ast>>

\* a faulty variant: the directory is kept (TempDir::into_path)
TempDirKept(F, t) == F

\* TempDir's Drop when `tempdir` goes out of scope: the directory and
\* everything in it are removed
TempDirDrop(F, t) == IF IsSome(t) THEN [F EXCEPT ![Unwrap(t)] = None] ELSE F

\* verify_mutant returns: its locals are dropped, the caller gets the result
VerifyReturn(w) ==
    /\ pc[w] = "vm_ret"
    /\ fs' = TempDirDrop(fs, tmp[w])
    /\ tmp' = [tmp EXCEPT ![w] = None]
    /\ res' = [res EXCEPT ![w] = call[w].pending]
    /\ pc' = [pc EXCEPT ![w] = "idle"]
    /\ UNCHANGED <<cfg, call, args, eng, jobs, refreshing, foreign, snapshot, ast>>

----------------------------------------------------------------------------
(* compiler.rs: generate_ast *)

\* codespan_reporting::diagnostic::Severity, in its order
Severities == {"Help", "Note", "Warning", "Error", "Bug"}
Rank(sev) ==
    CASE sev = "Help" -> 0 [] sev = "Note" -> 1 [] sev = "Warning" -> 2
      [] sev = "Error" -> 3 [] sev = "Bug" -> 4

AstPending == [tag |-> "pending", msg |-> <<>>, diags |-> {}]
AstOk(diags) == [tag |-> "Ok", msg |-> <<>>, diags |-> diags]
AstErr(m) == [tag |-> "Err", msg |-> m, diags |-> {}]

ResolutionError == <<"Unable to resolve packages for package">>
CheckerError == <<"exiting with checking errors">>
AstFailed == <<"AST generation failed">>

\* named addresses: the names a package can declare, in the order of String
\* (the order a BTreeMap iterates in), and the addresses they can stand for
Names == {"app", "std"}
NameOrder == <<"app", "std">>
AccountAddresses == {"1", "2"}

\* NumericalAddress::new(bytes, format)
NumericalAddress(bytes, format) == [bytes |-> bytes, format |-> format]

\* impl Display for NumericalAddress: hexadecimal with its prefix, or decimal
DisplayAddress(addr) ==
    IF addr.format = "Hex" THEN <<"0x", addr.bytes>> ELSE <<addr.bytes>>

\* format!("{k}={v}")
FormatBinding(k, v) == <<k, "=">> \o DisplayAddress(v)

\* a BTreeMap<String, _>.into_iter().map(|(k, v)| format!("{k}={v}")).collect()
named_address_mapping(map) ==
    LET keys == SelectSeq(NameOrder, LAMBDA k : k \in DOMAIN map)
    IN  [i \in 1..Len(keys) |-> FormatBinding(keys[i], map[keys[i]])]

\* a faulty variant: a name that is bound already keeps its address
BTreeInsertIfAbsent(map, k, v) ==
    [x \in DOMAIN map \cup {k} |-> IF x \in DOMAIN map THEN map[x] ELSE v]

\* BTreeMap::insert: the key is bound to the new value, whatever it was
BTreeInsert(map, k, v) ==
    [x \in DOMAIN map \cup {k} |-> IF x = k THEN v ELSE map[x]]

\* for (name, val) in &pack.named_address_map { global_address_map.insert(..) }
InsertPack(map, pack) ==
    LET m == pack.named_address_map
    IN  [x \in DOMAIN map \cup DOMAIN m |->
           IF x \in DOMAIN m THEN BTreeInsert(map, x, m[x])[x] ELSE map[x]]

\* for pack in paths.iter().chain(bytecode_deps.iter()) { .. }, from the
\* empty map
RECURSIVE global_address_map(_)
global_address_map(packs) ==
    IF packs = <<>> THEN <<>>
    ELSE InsertPack(global_address_map(SubSeq(packs, 1, Len(packs) - 1)),
                    packs[Len(packs)])

\* .flat_map(|x| to_str_vec(&x.paths)).collect()
RECURSIVE flat_paths(_)
flat_paths(packs) ==
    IF packs = <<>> THEN <<>> ELSE packs[1].paths \o flat_paths(Tail(packs))

\* partition_map(|(p, b)| if b { Left(p) } else { Right(p) }): the packages
\* whose flag is b, in their order
partition_map(deps_package_paths, b) ==
    LET sel == SelectSeq(deps_package_paths, LAMBDA d : d[2] = b)
    IN  [i \in 1..Len(sel) |-> sel[i][1]]

\* move_compiler_v2::Options::default(), with the function that made them
OptionsDefault ==
    [ mode |-> "none",
      sources |-> <<>>,
      dependencies |-> <<>>,
      named_address_mapping |-> <<>>,
      skip_attribute_checks |-> FALSE,
      known_attributes |-> {},
      language_version |-> None,
      compiler_version |-> None,
      experiments |-> <<>> ]

\* Flags::testing() / Flags::empty(): neither sets a flavor
Flags(test_mode) == [test |-> test_mode, flavor |-> ""]

\* attr_derivation::add_attributes_for_flavor: the attributes the flags'
\* flavor brings
add_attributes_for_flavor(flags, known_attributes) ==
    IF flags.flavor = "" THEN known_attributes
    ELSE known_attributes \cup {flags.flavor}

\* prepare_compiler_for_package: fails when the resolution graph of the
\* package cannot be built; else the options are put together from the
\* graph's packages and the configuration
prepare_compiler_for_package(config, package_path, resolved_graph) ==
    IF ~resolved_graph.resolved
    THEN AstErr(ResolutionError) @@ [options |-> OptionsDefault]
    ELSE LET sources_package_paths == resolved_graph.sources_package_paths
             deps_package_paths == resolved_graph.deps_package_paths
             src_deps == partition_map(deps_package_paths, TRUE)
             bytecode_deps == partition_map(deps_package_paths, FALSE)
             paths == Append(src_deps, sources_package_paths)
         IN  AstOk({}) @@
             [ options |->
                 [ OptionsDefault EXCEPT
                     !.mode = "package",
                     !.sources = flat_paths(paths),
                     !.dependencies = flat_paths(bytecode_deps),
                     !.named_address_mapping =
                         named_address_mapping(global_address_map(paths \o bytecode_deps)),
                     !.skip_attribute_checks = config.compiler_config.skip_attribute_checks,
                     !.known_attributes =
                         add_attributes_for_flavor(Flags(config.test_mode),
                                                   config.compiler_config.known_attributes),
                     !.language_version = config.compiler_config.language_version,
                     !.compiler_version = config.compiler_config.compiler_version,
                     !.experiments = config.compiler_config.experiments ] ]

\* prepare_compiler_for_files: cannot fail; what it does not set stays at
\* the default
prepare_compiler_for_files(config, source_files) ==
    LET named_addr_map ==
          [k \in DOMAIN config.additional_named_addresses |->
             NumericalAddress(config.additional_named_addresses[k], "Decimal")]
    IN  [ OptionsDefault EXCEPT
            !.mode = "files",
            !.sources = source_files,
            !.dependencies = <<>>,
            !.named_address_mapping = named_address_mapping(named_addr_map),
            !.skip_attribute_checks = config.compiler_config.skip_attribute_checks,
            !.known_attributes = config.compiler_config.known_attributes ]

\* a faulty variant: warnings count as errors
has_errors_or_warnings(diags) == \E d \in diags : Rank(d) >= Rank("Warning")

\* GlobalEnv::has_errors as generate_ast uses it: a diagnostic of severity
\* Error or above
has_errors(diags) == \E d \in diags : Rank(d) >= Rank("Error")

\* env.report_diag(&mut error_writer, severity): what is written
report_diag(diags, severity) == {d \in diags : Rank(d) >= Rank(severity)}

\* a package: its files and the named addresses its manifest resolves to
PackagePaths(paths, map) == [paths |-> paths, named_address_map |-> map]

\* a package whose manifest does not resolve
Unresolved ==
    [ resolved |-> FALSE,
      sources_package_paths |-> PackagePaths(<<>>, <<>>),
      deps_package_paths |-> <<>> ]

\* a package without dependencies
Standalone ==
    [ resolved |-> TRUE,
      sources_package_paths |-> PackagePaths(<<FileA, FileB>>, <<>>),
      deps_package_paths |-> <<>> ]

\* the BuildConfig generate_ast is given: BuildConfig::default() in test mode
AstConfig ==
    [ test_mode |-> TRUE,
      install_dir |-> None,
      additional_named_addresses |-> <<>>,
      compiler_config |->
        [ skip_attribute_checks |-> FALSE,
          known_attributes |-> {"test", "test_only"},
          language_version |-> None,
          compiler_version |-> None,
          experiments |-> <<>> ] ]

AstIdle ==
    [ pc |-> "none", config |-> AstConfig, move_sources |-> <<>>,
      graph |-> Unresolved,
      options |-> OptionsDefault,
      env |-> AstPending, emitted |-> {}, result |-> AstPending ]

\* let options = if is_package { prepare_compiler_for_package(..)? }
\*               else { prepare_compiler_for_files(..) }
AstPrepare ==
    /\ ast.pc = "prepare"
    /\ LET source_files == ast.move_sources
           is_package == source_files = <<>>
       IN  IF is_package
           THEN LET r == prepare_compiler_for_package(ast.config, OrigDir, ast.graph)
                IN  IF r.tag = "Err"
                    THEN ast' = [ast EXCEPT !.result = AstErr(r.msg), !.pc = "done"]
                    ELSE ast' = [ast EXCEPT !.options = r.options, !.pc = "check"]
           ELSE ast' = [ast EXCEPT
                          !.options = prepare_compiler_for_files(ast.config, source_files),
                          !.pc = "check"]
    /\ UNCHANGED <<cfg, fs, pc, call, tmp, args, eng, res, jobs, refreshing, foreign, snapshot>>

\* let env = run_checker(options)?
AstCheck ==
    /\ ast.pc = "check"
    /\ \/ ast' = [ast EXCEPT !.env = AstErr(CheckerError),
                             !.result = AstErr(CheckerError), !.pc = "done"]
       \/ \E diags \in SUBSET Severities :
             ast' = [ast EXCEPT !.env = AstOk(diags), !.pc = "report"]
    /\ UNCHANGED <<cfg, fs, pc, call, tmp, args, eng, res, jobs, refreshing, foreign, snapshot>>

\* if env.has_errors() { env.report_diag(.., Severity::Warning); bail!(..) }
\* Ok(env)
AstFinish ==
    /\ ast.pc = "report"
    /\ IF has_errors(ast.env.diags)
       THEN ast' = [ast EXCEPT !.emitted = report_diag(ast.env.diags, "Warning"),
                               !.result = AstErr(AstFailed), !.pc = "done"]
       ELSE ast' = [ast EXCEPT !.result = AstOk(ast.env.diags), !.pc = "done"]
    /\ UNCHANGED <<cfg, fs, pc, call, tmp, args, eng, res, jobs, refreshing, foreign, snapshot>>

----------------------------------------------------------------------------
(* The session *)

Configs ==
    [ apply_coverage : BOOLEAN,
      output_dir : {None, Some(OrigDir), Some(OutDir)},
      gas_limit : {MaxGas} ]

OrigTrees ==
    { [EmptyTree EXCEPT ![Manifest] = "manifest", ![FileA] = a, ![FileB] = SrcB]
        : a \in {SrcA, SrcAFailing} }
OutTree == [EmptyTree EXCEPT ![StrayFile] = "stray"]

Init ==
    /\ cfg \in Configs
    /\ \E o \in OrigTrees :
         fs = [d \in Dirs |-> IF d = OrigDir THEN Some(o)
                              ELSE IF d = OutDir THEN Some(OutTree) ELSE None]
    /\ pc = [p \in Procs |-> IF p = Main THEN "start" ELSE "idle"]
    /\ call = [w \in Workers |-> CallIdle]
    /\ tmp = [p \in Procs |-> None]
    /\ args = [p \in Procs |-> run_tests_on_mutated_code_call(cfg, OrigDir)]
    /\ eng = [p \in Procs |-> EngineIdle]
    /\ res = [p \in Procs |-> Pending]
    /\ jobs = 0
    /\ refreshing = {}
    /\ foreign = [p \in Procs |-> {}]
    /\ snapshot = EmptyTree
    /\ ast = AstIdle

Next ==
    \/ BaselineStart
    \/ \E p \in Procs : EngineResolve(p)
    \/ \E p \in Procs : EngineBuild(p)
    \/ \E p \in Procs : EngineExec(p)
    \/ \E p \in Procs : RunTestsReturn(p)
    \/ \E w \in Workers : StartMutantTest(w)
    \/ \E w \in Workers : FinishMutantTest(w)
    \/ \E w \in Workers : StartVerify(w)
    \/ \E w \in Workers : VerifyFindRoot(w)
    \/ \E w \in Workers : VerifyTempdir(w)
    \/ \E w \in Workers : VerifyCopy(w)
    \/ \E w \in Workers : VerifyWrite(w)
    \/ \E w \in Workers : VerifyCompile(w)
    \/ \E w \in Workers : VerifyReturn(w)

Spec == Init /\ [][Next]_vars


\* the session with mutant runs only
NextTests ==
    \/ BaselineStart
    \/ \E p \in Procs : EngineResolve(p)
    \/ \E p \in Procs : EngineBuild(p)
    \/ \E p \in Procs : EngineExec(p)
    \/ \E p \in Procs : RunTestsReturn(p)
    \/ \E w \in Workers : StartMutantTest(w)
    \/ \E w \in Workers : FinishMutantTest(w)

SpecTests == Init /\ [][NextTests]_vars

\* the session with sandbox verifications only
NextVerify ==
    \/ BaselineStart
    \/ EngineResolve(Main)
    \/ EngineBuild(Main)
    \/ EngineExec(Main)
    \/ RunTestsReturn(Main)
    \/ \E w \in Workers : StartVerify(w)
    \/ \E w \in Workers : VerifyFindRoot(w)
    \/ \E w \in Workers : VerifyTempdir(w)
    \/ \E w \in Workers : VerifyCopy(w)
    \/ \E w \in Workers : VerifyWrite(w)
    \/ \E w \in Workers : VerifyCompile(w)
    \/ \E w \in Workers : VerifyReturn(w)

SpecVerify == Init /\ [][NextVerify]_vars

\* threads keep running: a call that is under way takes its next step
Run(p) ==
    \/ EngineResolve(p)
    \/ EngineBuild(p)
    \/ EngineExec(p)
    \/ RunTestsReturn(p)

FairSpecTests == SpecTests /\ \A p \in Procs : WF_vars(Run(p))

----------------------------------------------------------------------------
(* Properties *)

\* thread p has returned from a test run
TestReturned(p) ==
    IF p = Main THEN pc[Main] = "done"
    ELSE call[p].op = "test" /\ pc[p] \in {"mt_cleanup", "idle"}

\* worker w has returned from verify_mutant
VerifyReturned(w) == call[w].op = "verify" /\ pc[w] = "idle"

\* C1: a baseline run whose engine did not report Success returns an error,
\* and a worker has started mutant work (a verification or a mutant run) only
\* if the baseline has returned and its engine reported Success.
C1_BaselineGate ==
    /\ (pc[Main] = "done" /\ eng[Main].result # EngineOk("Success"))
          => res[Main].tag = "Err"
    /\ \A w \in Workers :
          (call[w].op # "none" \/ pc[w] # "idle")
             => (pc[Main] = "done" /\ eng[Main].result = EngineOk("Success"))

\* the baseline failed (a test failure or an engine fault) and returned a
\* fatal error; no worker has started anything
C1_Witness ==
    /\ pc[Main] = "done"
    /\ eng[Main].result \in {EngineOk("Failure"), EngineErr(IoNoSpace)}
    /\ res[Main].tag = "Err"
    /\ jobs = 0
    /\ \A w \in Workers : call[w].op = "none" /\ pc[w] = "idle"

\* C2: no verification and no mutant run writes anywhere but into the
\* temporary directory of its own call, and the original package tree stays
\* what it was when the baseline returned.
C2_OriginalReadOnly ==
    /\ \A w \in Workers : foreign[w] = {}
    /\ BaselineGate => Tree(OrigDir) = snapshot

\* C3: every temporary directory that exists is held by a call that has not
\* returned yet; after verify_mutant has returned, whichever step ended it,
\* its directory is gone.
C3_SandboxCleanup ==
    /\ \A d \in TmpDirs :
          Exists(d) => \E w \in Workers : tmp[w] = Some(d) /\ pc[w] # "idle"
    /\ \A w \in Workers : pc[w] = "idle" => tmp[w] = None

\* two verifications have returned, one ended by a failing copy and one by a
\* failing compile, and no temporary directory is left
C3_Witness ==
    /\ \E w1, w2 \in Workers :
          /\ VerifyReturned(w1) /\ call[w1].step = "copy" /\ res[w1].tag = "Err"
          /\ VerifyReturned(w2) /\ call[w2].step = "compile" /\ res[w2].tag = "Err"
    /\ \A d \in TmpDirs : ~Exists(d)

EarlierSteps == {"canonicalize", "root", "tempdir", "copy", "write"}

\* C4: verify_mutant returns Ok exactly when the compile step was reached and
\* succeeded; a failing compile returns the compiler's error; and the error of
\* a failing compile differs from every error an earlier step returns.
C4_VerifyVerdict ==
    /\ \A w \in Workers :
          VerifyReturned(w) =>
             /\ res[w].tag = "Ok" <=>
                  (call[w].step = "compile" /\ call[w].pending.tag = "Ok")
             /\ (call[w].step = "compile" /\ call[w].pending.tag = "Err")
                  => res[w] = call[w].pending
    /\ \A w1, w2 \in Workers :
          ( /\ VerifyReturned(w1) /\ call[w1].step = "compile" /\ res[w1].tag = "Err"
            /\ VerifyReturned(w2) /\ call[w2].step \in EarlierSteps )
             => res[w1] # res[w2]

\* what run_tests itself returned to its caller
RunTestsResult(p) ==
    IF p = Main /\ res[p].tag = "Err" THEN Err(Tail(res[p].msg)) ELSE res[p]

\* the outcome a caller reads off a result of run_tests
TestOutcome(r) ==
    IF r.tag = "Ok" THEN "Success"
    ELSE IF r.msg = TestFailureMsg THEN "Failure"
    ELSE "EngineError"

EngineOutcome(e) == IF e.tag = "Err" THEN "EngineError" ELSE e.val[1]

\* C5: a returned test run's result reads as the outcome the engine reported
\* (Success, Failure, or EngineError with the cause at the end of the
\* message), and runs whose engines reported different outcomes returned
\* different results.
C5_TriState ==
    /\ \A p \in Procs :
          TestReturned(p) =>
             /\ TestOutcome(RunTestsResult(p)) = EngineOutcome(eng[p].result)
             /\ eng[p].result.tag = "Err" =>
                  /\ Len(res[p].msg) > Len(eng[p].result.val)
                  /\ SubSeq(res[p].msg,
                            Len(res[p].msg) - Len(eng[p].result.val) + 1,
                            Len(res[p].msg)) = eng[p].result.val
    /\ \A p, q \in Procs :
          ( /\ TestReturned(p) /\ TestReturned(q)
            /\ EngineOutcome(eng[p].result) # EngineOutcome(eng[q].result) )
             => res[p] # res[q]

\* one mutant run ended by a test failure and one by an engine fault whose
\* cause reads like the test failure's message
C5_Witness ==
    \E p, q \in Workers :
       /\ TestReturned(p) /\ eng[p].result = EngineOk("Failure")
       /\ TestReturned(q) /\ eng[q].result = EngineErr(TestFailureMsg)


\* worker w is in, or has returned from, a mutant run whose tested code loops
LoopRun(w) == call[w].op = "test" /\ call[w].mutant.text = MLoop

\* C6: every mutant run hands the engine a finite gas limit; a mutant run
\* whose tested code loops for ever returns all the same, and what it returns
\* is never success.
C6_LoopBounded ==
    /\ [](\A w \in Workers : call[w].op = "test" => IsSome(eng[w].gas_limit))
    /\ \A w \in Workers :
          (LoopRun(w) /\ pc[w] = "rt_exec") ~> (LoopRun(w) /\ pc[w] = "mt_cleanup")
    /\ [](\A w \in Workers : (LoopRun(w) /\ TestReturned(w)) => res[w].tag = "Err")

\* a looping mutant has used up its gas and its run has returned a failure
C6_Witness ==
    \E w \in Workers :
       /\ LoopRun(w) /\ pc[w] = "mt_cleanup"
       /\ eng[w].result = EngineOk("Failure")
       /\ res[w] = Err(TestFailureMsg)

\* both workers have returned from a mutant run of the same mutant
SameMutantReturned(w1, w2) ==
    /\ w1 # w2
    /\ TestReturned(w1) /\ TestReturned(w2)
    /\ call[w1].mutant = call[w2].mutant
    /\ args[w1].cfg = args[w2].cfg
    /\ eng[w1].gas_limit = eng[w2].gas_limit

EnvFault(p) == eng[p].result.tag = "Err" /\ eng[p].result.val \in EngineFaults

C8_TraceRemoved ==
    \A p \in Procs :
       (TestReturned(p) /\ args[p].cfg.apply_coverage) =>
          /\ eng[p].trace_removal # "none"
          /\ eng[p].trace_removal = "removed"
                => ~FileExists(args[p].package_path, TraceFile)

\* C9: only the baseline run asks for the dependency refresh, every mutant
\* run skips it, and at no time do two threads refresh the dependency cache.
C9_SingleRefresher ==
    /\ \A p \in Procs :
          pc[p] \in {"rt_resolve", "rt_build", "rt_exec", "rt_ret"} =>
             eng[p].config.skip_fetch_latest_git_deps = (p # Main)
    /\ refreshing \subseteq {Main}
    /\ Cardinality(refreshing) <= 1

\* two mutant runs are resolving their dependencies at the same time, and
\* neither refreshes the cache
C9_Witness ==
    /\ \A w \in Workers : call[w].op = "test" /\ pc[w] = "rt_build"
    /\ refreshing = {}

\* the files in which the temporary directory of worker w differs from the
\* package root its call found
SandboxDiff(w) ==
    {f \in Files : Tree(Unwrap(tmp[w]))[f] # Tree(Unwrap(call[w].root))[f]}

\* C11: when verify_mutant is about to invoke the compiler, its temporary
\* directory holds the package root's files at their root-relative paths and
\* differs from the original tree in exactly one file, the one at the
\* target's relative path, which holds the mutant's text.
C11_SandboxContent ==
    \A w \in Workers :
       pc[w] = "vm_compile" =>
          /\ Tree(Unwrap(tmp[w]))[call[w].relative_path] = call[w].mutant.text
          /\ SandboxDiff(w) = {call[w].relative_path}

----------------------------------------------------------------------------
(* generate_ast on its own: the inputs are drawn by the initial state *)

RECURSIVE SeqsUpTo(_, _)
SeqsUpTo(S, n) ==
    IF n = 0 THEN {<<>>}
    ELSE LET shorter == SeqsUpTo(S, n - 1)
         IN  shorter \cup {Append(q, x) : q \in shorter, x \in S}

InitAst ==
    /\ cfg \in Configs
    /\ fs = [d \in Dirs |->
               IF d = OrigDir
               THEN Some([EmptyTree EXCEPT ![Manifest] = "manifest",
                                           ![FileA] = SrcA, ![FileB] = SrcB])
               ELSE IF d = OutDir THEN Some(OutTree) ELSE None]
    /\ pc = [p \in Procs |-> IF p = Main THEN "start" ELSE "idle"]
    /\ call = [w \in Workers |-> CallIdle]
    /\ tmp = [p \in Procs |-> None]
    /\ args = [p \in Procs |-> run_tests_on_mutated_code_call(cfg, OrigDir)]
    /\ eng = [p \in Procs |-> EngineIdle]
    /\ res = [p \in Procs |-> Pending]
    /\ jobs = 0
    /\ refreshing = {}
    /\ foreign = [p \in Procs |-> {}]
    /\ snapshot = EmptyTree
    /\ \E ms \in SeqsUpTo(SourceFiles, MaxSources), g \in {Unresolved, Standalone} :
          ast = [AstIdle EXCEPT !.pc = "prepare", !.move_sources = ms, !.graph = g]

NextAst ==
    \/ AstPrepare
    \/ AstCheck
    \/ AstFinish

SpecAst == InitAst /\ [][NextAst]_vars

\* C10: generate_ast fails exactly when preparing the options failed, the
\* checker failed, or the model has a diagnostic of severity Error or above;
\* in the last case what it wrote before failing is the model's diagnostics
\* from Warning up; a model with nothing above Warning is returned.
C10_ModelBuildVerdict ==
    ast.pc = "done" =>
       /\ ast.result.tag = "Err" <=>
             \/ ast.options.mode = "none"
             \/ ast.env.tag = "Err"
             \/ (ast.env.tag = "Ok" /\ \E d \in ast.env.diags : d \in {"Error", "Bug"})
       /\ (ast.env.tag = "Ok" /\ \E d \in ast.env.diags : d \in {"Error", "Bug"})
             => /\ ast.result = AstErr(AstFailed)
                /\ ast.emitted = ast.env.diags \cap {"Warning", "Error", "Bug"}
       /\ (ast.env.tag = "Ok" /\ ast.env.diags \subseteq {"Warning", "Note", "Help"})
             => /\ ast.result = AstOk(ast.env.diags)
                /\ ast.emitted = {}

\* a model with an error and a warning: both were written, the build failed;
C10_Witness ==
    /\ ast.pc = "done"
    /\ ast.env = AstOk({"Error", "Warning", "Note"})
    /\ ast.emitted = {"Error", "Warning"}
    /\ ast.result = AstErr(AstFailed)

----------------------------------------------------------------------------
(* The options generate_ast hands to the checker: the configuration, the
   source list and the resolved package graph are drawn by the initial
   state *)

\* the named addresses one package can resolve to
AddressMaps ==
    UNION { [S -> {NumericalAddress(a, "Hex") : a \in AccountAddresses}]
              : S \in SUBSET Names }

\* the i-th transitive dependency, with its sources or, if it has none, its
\* bytecode
DepPackage(i, source_available, map) ==
    << PackagePaths(IF source_available
                    THEN <<"deps/d" \o ToString(i) \o "/sources/lib.move">>
                    ELSE <<"deps/d" \o ToString(i) \o "/build/lib.mv">>,
                    map),
       source_available >>

\* a resolved graph: the root package and its n transitive dependencies in
\* resolution order
Graph(root_map, n, flags, maps) ==
    [ resolved |-> TRUE,
      sources_package_paths |-> PackagePaths(<<FileA, FileB>>, root_map),
      deps_package_paths |-> [i \in 1..n |-> DepPackage(i, flags[i], maps[i])] ]

\* the configurations generate_ast can be given
AstConfigs ==
    { [ AstConfig EXCEPT
          !.additional_named_addresses = addrs,
          !.compiler_config.skip_attribute_checks = TRUE,
          !.compiler_config.language_version = lv,
          !.compiler_config.compiler_version = cv,
          !.compiler_config.experiments = <<"optimize">> ]
        : addrs \in {<<>>, [k \in {"std"} |-> "1"]},
          lv \in {None, Some("2.1")},
          cv \in {None, Some("2.0")} }

InitOptions ==
    /\ cfg = [apply_coverage |-> FALSE, output_dir |-> None, gas_limit |-> MaxGas]
    /\ fs = [d \in Dirs |->
               IF d = OrigDir
               THEN Some([EmptyTree EXCEPT ![Manifest] = "manifest",
                                           ![FileA] = SrcA, ![FileB] = SrcB])
               ELSE IF d = OutDir THEN Some(OutTree) ELSE None]
    /\ pc = [p \in Procs |-> IF p = Main THEN "start" ELSE "idle"]
    /\ call = [w \in Workers |-> CallIdle]
    /\ tmp = [p \in Procs |-> None]
    /\ args = [p \in Procs |-> run_tests_on_mutated_code_call(cfg, OrigDir)]
    /\ eng = [p \in Procs |-> EngineIdle]
    /\ res = [p \in Procs |-> Pending]
    /\ jobs = 0
    /\ refreshing = {}
    /\ foreign = [p \in Procs |-> {}]
    /\ snapshot = EmptyTree
    /\ \E c \in AstConfigs :
          \/ \E ms \in SeqsUpTo(SourceFiles, MaxSources) :
                ast = [AstIdle EXCEPT !.pc = "prepare", !.config = c,
                                      !.move_sources = ms]
          \/ \E n \in 0..MaxDeps :
                \E root_map \in AddressMaps,
                   flags \in [1..n -> BOOLEAN],
                   maps \in [1..n -> AddressMaps] :
                   ast = [AstIdle EXCEPT !.pc = "prepare", !.config = c,
                                         !.graph = Graph(root_map, n, flags, maps)]

NextOptions == AstPrepare

SpecOptions == InitOptions /\ [][NextOptions]_vars

\* generate_ast is about to call the checker with options made in package mode
PackageOptionsMade == ast.pc = "check" /\ ast.options.mode = "package"

\* the packages of the graph in the order of the merge: the dependencies
\* with source in resolution order, the root package, the bytecode-only
\* dependencies in resolution order
MergeOrder ==
    LET deps == ast.graph.deps_package_paths
        with_source == SelectSeq(deps, LAMBDA d : d[2])
        bytecode_only == SelectSeq(deps, LAMBDA d : ~d[2])
    IN  [i \in 1..Len(with_source) |-> with_source[i][1].named_address_map]
        \o <<ast.graph.sources_package_paths.named_address_map>>
        \o [i \in 1..Len(bytecode_only) |-> bytecode_only[i][1].named_address_map]

\* the positions of MergeOrder whose package declares the name
Declaring(name) == {i \in 1..Len(MergeOrder) : name \in DOMAIN MergeOrder[i]}

\* the address of the last package of MergeOrder that declares the name
LastDeclared(name) ==
    LET last == CHOOSE i \in Declaring(name) : \A j \in Declaring(name) : j <= i
    IN  MergeOrder[last][name]

\* the entries of the options' address mapping that bind the name
Bindings(name) ==
    {i \in 1..Len(ast.options.named_address_mapping) :
        ast.options.named_address_mapping[i][1] = name}

\* C12: in package mode the merged address mapping binds each name that any
\* package of the graph declares exactly once and binds no other name, and
\* the address of a name is the one given by the last package that declares
\* it, in the order: dependencies with source in resolution order, the root
\* package, bytecode-only dependencies.
C12_MergePrecedence ==
    PackageOptionsMade =>
       \A name \in Names :
          /\ Declaring(name) # {} => Cardinality(Bindings(name)) = 1
          /\ Declaring(name) = {} => Bindings(name) = {}
          /\ \A i \in Bindings(name) :
                ast.options.named_address_mapping[i] =
                   FormatBinding(name, LastDeclared(name))

\* a dependency with source binds std to 1 and app to 1, the root package
\* binds std to 2, a bytecode-only dependency binds app to 2: the root's std
\* and the bytecode dependency's app are in the options
C12_Witness ==
    /\ PackageOptionsMade
    /\ Len(MergeOrder) = 3
    /\ Len(ast.graph.deps_package_paths) = MaxDeps
    /\ ast.graph.deps_package_paths[1][2] /\ ~ast.graph.deps_package_paths[2][2]
    /\ MergeOrder[1] = [k \in Names |-> NumericalAddress("1", "Hex")]
    /\ MergeOrder[2] = [k \in {"std"} |-> NumericalAddress("2", "Hex")]
    /\ MergeOrder[3] = [k \in {"app"} |-> NumericalAddress("2", "Hex")]
    /\ ast.options.named_address_mapping =
          << <<"app", "=", "0x", "2">>, <<"std", "=", "0x", "2">> >>

\* what the checker reads out of one entry of the address mapping: the name
\* and the address, whichever way the address is written
ParseBinding(b) == [name |-> b[1], address |-> b[Len(b)]]

\* the bindings the checker reads out of the options
ParsedMapping ==
    {ParseBinding(ast.options.named_address_mapping[i]) :
        i \in 1..Len(ast.options.named_address_mapping)}

\* C13: the options handed to the checker were made in package mode exactly
\* when the configured source list is empty and in file-list mode otherwise;
\* in both modes they carry the configuration's attribute settings, language
\* version and compiler version; package-mode options have the graph's
\* source paths, bytecode dependency paths and merged addresses; file-list
\* options have the listed sources, no dependencies and exactly the
\* configuration's own named addresses.
C13_CompilerOptions ==
    ast.pc = "check" =>
       LET o == ast.options
           c == ast.config
       IN  /\ o.mode = (IF ast.move_sources = <<>> THEN "package" ELSE "files")
           /\ o.skip_attribute_checks = c.compiler_config.skip_attribute_checks
           /\ c.compiler_config.known_attributes \subseteq o.known_attributes
           /\ o.language_version = c.compiler_config.language_version
           /\ o.compiler_version = c.compiler_config.compiler_version
           /\ o.mode = "package" =>
                 /\ o.sources =
                       flat_paths(partition_map(ast.graph.deps_package_paths, TRUE))
                          \o ast.graph.sources_package_paths.paths
                 /\ o.dependencies =
                       flat_paths(partition_map(ast.graph.deps_package_paths, FALSE))
                 /\ {b.name : b \in ParsedMapping} = {n \in Names : Declaring(n) # {}}
           /\ o.mode = "files" =>
                 /\ o.sources = ast.move_sources
                 /\ o.dependencies = <<>>
                 /\ ParsedMapping =
                       { [name |-> k, address |-> c.additional_named_addresses[k]]
                           : k \in DOMAIN c.additional_named_addresses }

====
